---- MODULE Spec2Model ----
(***************************************************************************)
(* Model of shootings_by_state.py: the hybrid MJ + GVA report generator.   *)
(* One run of the script is a chain of steps: download the Mother Jones    *)
(* CSV, download the Gun Violence Archive CSV, normalise the columns,      *)
(* aggregate by (Year, State), outer-merge, mark school shootings, render  *)
(* the table and the national trend chart, write the report file.          *)
(***************************************************************************)
EXTENDS Integers, Sequences, FiniteSets, TLC

\* ------------------------------------------------------------------ bounds
\* Largest number of data lines of a downloaded CSV.
MaxRows == 2

\* ------------------------------------------------------- program constants
MJ_CSV_URL == "https://gist.githubusercontent.com/rlvaugh/beed70510dcff259aeb120f0abf63533/raw/mass_shootings.csv"
GVA_CSV_URL == "https://datahub.io/JohnDoe/mass-shootings/r/mass-shootings.csv"
REPORT_FILE == "mass_shootings_report.html"
STAR == "*"    \* the school marker (a black star in the script)
HTTP_OK == 200

\* Column names of the two inputs, in the order the script documents them.
MJ_COLUMNS == <<"Date", "State", "School">>
GVA_COLUMNS == <<"Incident Date", "State", "School">>

\* pandas' missing value in a text column, and in a numeric column of the
\* merged table (counts are never negative, so -1 is free to stand for it).
NaN == "NaN"
NaNf == 0 - 1

\* ------------------------------------------------------------ input space
\* A date cell is the text "y-m-d", kept as its three numbers.
D19 == <<2019, 3, 1>>
D20 == <<2020, 7, 4>>
BadDate == <<2020, 13, 1>>

\* The status codes a download can answer with.
StatusCodes == {200, 404, 500}

\* The data lines a CSV is made of (Date, State, School): two spellings of
\* one state, two years, an empty State cell and a malformed date.
RowDomain ==
  { <<D20, "California", "True">>,
    <<D20, "CA", "False">>,
    <<D19, "California", "False">>,
    <<D20, "", "True">>,
    <<BadDate, "California", "False">> }

\* Which of the three documented columns a CSV carries: all of them, or all
\* but School, all but the date, all but State.
Layouts == { <<1, 2, 3>>, <<1, 2>>, <<2, 3>>, <<1, 3>> }

Project(seq, layout) == [i \in 1..Len(layout) |-> seq[layout[i]]]

Lines(layout) == { Project(r, layout) : r \in RowDomain }

Tables(layout) == UNION { [1..n -> Lines(layout)] : n \in 0..MaxRows }

\* The body of a failed response (an error page, not a CSV).
ErrorBody == [header |-> <<>>, lines |-> <<>>]

\* ---------------------------------------------------------------- helpers
Range(seq) == { seq[i] : i \in 1..Len(seq) }

ColIdx(header, col) == CHOOSE i \in 1..Len(header) : header[i] = col

\* The lexicographic order of the state names (pandas sorts group keys).
StateOrder == <<"CA", "California">>

StateRank(s) == CHOOSE i \in 1..Len(StateOrder) : StateOrder[i] = s

KeyLess(k1, k2) ==
  \/ k1[1] < k2[1]
  \/ k1[1] = k2[1] /\ StateRank(k1[2]) < StateRank(k2[2])

RECURSIVE SortKeys(_)
SortKeys(S) ==
  IF S = {} THEN <<>>
  ELSE LET m == CHOOSE k \in S : \A o \in S \ {k} : KeyLess(k, o)
       IN  <<m>> \o SortKeys(S \ {m})

RECURSIVE SortInts(_)
SortInts(S) ==
  IF S = {} THEN <<>>
  ELSE LET m == CHOOSE k \in S : \A o \in S : k <= o
       IN  <<m>> \o SortInts(S \ {m})

\* ------------------------------------------------------------ download_csv
ValueError(url) == [type |-> "ValueError", msg |-> <<"Failed to download CSV from ", url>>]

KeyError(col) == [type |-> "KeyError", msg |-> <<col>>]

DateParseError(cell) == [type |-> "ValueError", msg |-> <<"Unknown datetime string format">>]

NoError == [type |-> "none", msg |-> <<>>]

\* download_csv with the status test loosened to "not a server error".
download_csv_lenient(resp, url) ==
  IF resp.status_code < 500
    THEN [ok |-> TRUE, value |-> resp.text]
    ELSE [ok |-> FALSE, exc |-> ValueError(url)]

download_csv(resp, url) ==
  IF resp.status_code = HTTP_OK
    THEN [ok |-> TRUE, value |-> resp.text]
    ELSE [ok |-> FALSE, exc |-> ValueError(url)]

\* ---------------------------------------------------------------- read_csv
\* A cell as pandas reads it: an empty State cell is NaN, a School cell of
\* True/False is a boolean, a date cell stays text until to_datetime.
ParseCell(col, cell) ==
  IF col = "School" THEN cell = "True"
  ELSE IF col = "State" THEN (IF cell = "" THEN NaN ELSE cell)
  ELSE cell

read_csv(text) ==
  [columns |-> Range(text.header),
   rows |-> [i \in 1..Len(text.lines) |->
               [c \in Range(text.header) |->
                  ParseCell(c, text.lines[i][ColIdx(text.header, c)])]]]

NoDf == [columns |-> {}, rows |-> <<>>]

\* ------------------------------------------------- parse & normalise columns
IsLeap(y) == (y % 4 = 0 /\ y % 100 # 0) \/ y % 400 = 0

DaysInMonth(y, m) ==
  IF m = 2 THEN (IF IsLeap(y) THEN 29 ELSE 28)
  ELSE IF m \in {4, 6, 9, 11} THEN 30 ELSE 31

\* A parser that checks the day and never the month.
ValidDate_dayOnly(cell) == cell[3] \in 1..31

\* Whether pd.to_datetime can parse the cell (it raises otherwise).
ValidDate(cell) ==
  /\ cell[2] \in 1..12
  /\ cell[3] \in 1..DaysInMonth(cell[1], cell[2])

to_datetime(cell) == [year |-> cell[1], month |-> cell[2], day |-> cell[3]]

\* df.get with the default taken as True.
df_get_defaultTrue(df, row, col, default) ==
  IF col \in df.columns THEN row[col] ELSE TRUE

\* df.get(col, default): the column's value in this row, or the default
\* when the frame has no such column.
df_get(df, row, col, default) ==
  IF col \in df.columns THEN row[col] ELSE default

\* Lines 60-63 (MJ) and 67-70 (GVA): coerce the date column, derive Year,
\* default School to False, add the constant count column.
Normalize(df, dateCol, countCol) ==
  IF dateCol \notin df.columns
    THEN [ok |-> FALSE, exc |-> KeyError(dateCol)]
  ELSE IF \E i \in 1..Len(df.rows) : ~ValidDate(df.rows[i][dateCol])
    THEN [ok |-> FALSE,
          exc |-> DateParseError(CHOOSE i \in 1..Len(df.rows) :
                                   ~ValidDate(df.rows[i][dateCol]))]
  ELSE
    LET cols == df.columns \cup {"Year", "School", countCol}
    IN  [ok |-> TRUE,
         df |-> [columns |-> cols,
                 rows |-> [i \in 1..Len(df.rows) |->
                   LET r  == df.rows[i]
                       ts == to_datetime(r[dateCol])
                   IN  [c \in cols |->
                          IF c = dateCol THEN ts
                          ELSE IF c = "Year" THEN ts.year
                          ELSE IF c = "School" THEN df_get(df, r, "School", FALSE)
                          ELSE IF c = countCol THEN 1
                          ELSE r[c]]]]]

\* ------------------------------------------------- aggregate by Year x State
\* The group keys: groupby drops the rows whose key has a missing value.
GroupKeys(df) ==
  { <<df.rows[i]["Year"], df.rows[i]["State"]>> :
      i \in { j \in 1..Len(df.rows) : df.rows[j]["State"] # NaN } }

\* Grouping by State alone.
InGroup_StateOnly(row, key) == row["State"] = key[2]

InGroup(row, key) == row["State"] = key[2] /\ row["Year"] = key[1]

\* 'sum' of a column over the rows of one group (a boolean counts as 0/1).
RECURSIVE GroupSum(_, _, _, _, _)
GroupSum(rows, key, col, isBool, n) ==
  IF n = 0 THEN 0
  ELSE GroupSum(rows, key, col, isBool, n - 1)
       + (IF InGroup(rows[n], key)
            THEN (IF isBool THEN (IF rows[n][col] THEN 1 ELSE 0) ELSE rows[n][col])
            ELSE 0)

\* df.groupby(['Year','State']).agg(<countCol>=(countCol,'sum'),
\*   School_Incidents=('School','sum')).reset_index()
groupby_agg(df, countCol) ==
  IF "State" \notin df.columns
    THEN [ok |-> FALSE, exc |-> KeyError("State")]
  ELSE
    LET keys == SortKeys(GroupKeys(df))
        n    == Len(df.rows)
    IN  [ok |-> TRUE,
         df |-> [i \in 1..Len(keys) |->
                   [c \in {"Year", "State", countCol, "School_Incidents"} |->
                      IF c = "Year" THEN keys[i][1]
                      ELSE IF c = "State" THEN keys[i][2]
                      ELSE IF c = countCol
                        THEN GroupSum(df.rows, keys[i], countCol, FALSE, n)
                      ELSE GroupSum(df.rows, keys[i], "School", TRUE, n)]]]

KeysOf(agg) == { <<agg[i]["Year"], agg[i]["State"]>> : i \in 1..Len(agg) }

\* ------------------------------------------------------------------- merge
\* One row of the merged table from a left row and a right row; a side
\* without a match (l = 0 or r = 0) leaves its columns missing.
JoinRow(key, left, l, right, r) ==
  [Year |-> key[1],
   State |-> key[2],
   MJ_Count |-> IF l = 0 THEN NaNf ELSE left[l]["MJ_Count"],
   School_Incidents_MJ |-> IF l = 0 THEN NaNf ELSE left[l]["School_Incidents"],
   GVA_Count |-> IF r = 0 THEN NaNf ELSE right[r]["GVA_Count"],
   School_Incidents_GVA |-> IF r = 0 THEN NaNf ELSE right[r]["School_Incidents"]]

Matches(agg, key) ==
  SortInts({ i \in 1..Len(agg) : <<agg[i]["Year"], agg[i]["State"]>> = key })

\* The rows an outer join makes for one key: every pairing of the matching
\* left and right rows, or the one side alone.
MergeKey(left, right, key) ==
  LET L == Matches(left, key)
      R == Matches(right, key)
  IN  IF R = <<>> THEN [i \in 1..Len(L) |-> JoinRow(key, left, L[i], right, 0)]
      ELSE IF L = <<>> THEN [i \in 1..Len(R) |-> JoinRow(key, left, 0, right, R[i])]
      ELSE [n \in 1..(Len(L) * Len(R)) |->
              JoinRow(key, left, L[((n - 1) \div Len(R)) + 1],
                           right, R[((n - 1) % Len(R)) + 1])]

RECURSIVE MergeRows(_, _, _)
MergeRows(left, right, keys) ==
  IF keys = <<>> THEN <<>>
  ELSE MergeKey(left, right, Head(keys)) \o MergeRows(left, right, Tail(keys))

\* .fillna(0) on the numeric columns.
Fill0(v) == IF v = NaNf THEN 0 ELSE v

fillna(rows) ==
  [i \in 1..Len(rows) |->
     [rows[i] EXCEPT !.MJ_Count = Fill0(@),
                     !.School_Incidents_MJ = Fill0(@),
                     !.GVA_Count = Fill0(@),
                     !.School_Incidents_GVA = Fill0(@)]]

\* The merge with how='inner'.
merge_inner(left, right) ==
  fillna(MergeRows(left, right, SortKeys(KeysOf(left) \cap KeysOf(right))))

\* pd.merge(mj_agg, gva_agg, on=['Year','State'], how='outer',
\*          suffixes=('_MJ','_GVA')).fillna(0)
merge(left, right) ==
  fillna(MergeRows(left, right, SortKeys(KeysOf(left) \cup KeysOf(right))))

\* ------------------------------------------------------------ school_marker
\* The marker with 'and' in place of 'or'.
school_marker_and(row) ==
  IF row.School_Incidents_MJ > 0 /\ row.School_Incidents_GVA > 0
    THEN STAR
    ELSE ""

school_marker(row) ==
  IF row.School_Incidents_MJ > 0 \/ row.School_Incidents_GVA > 0
    THEN STAR
    ELSE ""

\* combined['School'] = combined.apply(school_marker, axis=1)
apply_marker(rows) ==
  [i \in 1..Len(rows) |->
     [Year |-> rows[i].Year,
      State |-> rows[i].State,
      MJ_Count |-> rows[i].MJ_Count,
      School_Incidents_MJ |-> rows[i].School_Incidents_MJ,
      GVA_Count |-> rows[i].GVA_Count,
      School_Incidents_GVA |-> rows[i].School_Incidents_GVA,
      School |-> school_marker(rows[i])]]

\* --------------------------------------------------------- table and chart
TABLE_COLUMNS == <<"Year", "State", "MJ_Count", "GVA_Count", "School">>

to_html(rows, columns) ==
  [columns |-> columns,
   body |-> [i \in 1..Len(rows) |->
               [j \in 1..Len(columns) |-> rows[i][columns[j]]]]]

RECURSIVE YearSum(_, _, _, _)
YearSum(rows, year, col, n) ==
  IF n = 0 THEN 0
  ELSE YearSum(rows, year, col, n - 1)
       + (IF rows[n].Year = year THEN rows[n][col] ELSE 0)

\* combined.groupby('Year').agg(MJ_Total=('MJ_Count','sum'),
\*                              GVA_Total=('GVA_Count','sum')).reset_index()
national_trend_of(rows) ==
  LET years == SortInts({ rows[i].Year : i \in 1..Len(rows) })
  IN  [i \in 1..Len(years) |->
         [Year |-> years[i],
          MJ_Total |-> YearSum(rows, years[i], "MJ_Count", Len(rows)),
          GVA_Total |-> YearSum(rows, years[i], "GVA_Count", Len(rows))]]

\* px.line(national_trend, x='Year', y=['MJ_Total','GVA_Total']).to_html():
\* one trace per y column, each with the x and y values.
line_chart(trend) ==
  [title |-> "National Mass Shooting Trend (MJ vs GVA)",
   traces |-> << [name |-> "MJ_Total",
                  x |-> [i \in 1..Len(trend) |-> trend[i].Year],
                  y |-> [i \in 1..Len(trend) |-> trend[i].MJ_Total]],
                 [name |-> "GVA_Total",
                  x |-> [i \in 1..Len(trend) |-> trend[i].Year],
                  y |-> [i \in 1..Len(trend) |-> trend[i].GVA_Total]] >>]

NoTable == [columns |-> <<>>, body |-> <<>>]

NoChart == [title |-> "", traces |-> <<>>]

NoText == [header |-> <<>>, lines |-> <<>>]

\* ------------------------------------------------------------------- state
VARIABLES
  pc,                \* where the script is
  requests,          \* the HTTP requests made so far, with their responses
  mj_src, gva_src,   \* what download_csv returned (the CSV text)
  mj_df, gva_df,     \* the two data frames
  mj_agg, gva_agg,   \* the two grouped tables
  combined,          \* the merged table
  html_table,        \* the rendered table
  national_trend,    \* the per-year totals
  trend_chart_html,  \* the rendered chart
  files,             \* the files the run has written
  writes,            \* how many times it wrote a file
  err                \* the uncaught exception, if any

vars == <<pc, requests, mj_src, gva_src, mj_df, gva_df, mj_agg, gva_agg,
          combined, html_table, national_trend, trend_chart_html, files,
          writes, err>>

Init ==
  /\ pc = "start"
  /\ requests = <<>>
  /\ mj_src = NoText
  /\ gva_src = NoText
  /\ mj_df = NoDf
  /\ gva_df = NoDf
  /\ mj_agg = <<>>
  /\ gva_agg = <<>>
  /\ combined = <<>>
  /\ html_table = NoTable
  /\ national_trend = <<>>
  /\ trend_chart_html = NoChart
  /\ files = {}
  /\ writes = 0
  /\ err = NoError

\* A response to a GET: a CSV with some of the documented columns when the
\* status is 200, an error page otherwise.
Response(status, columns, layout, lines) ==
  [status_code |-> status,
   text |-> IF status = HTTP_OK
              THEN [header |-> Project(columns, layout), lines |-> lines]
              ELSE ErrorBody]

\* The second download attempted even after the first one raised.
CanRequestGVA_afterFailure == pc \in {"mj_loaded", "error"} /\ Len(requests) = 1

\* The script runs top to bottom: line 52 is reached only when line 51 did
\* not raise.
CanRequestMJ == pc = "start"

CanRequestGVA == pc = "mj_loaded"

\* Line 51: mj_df = pd.read_csv(download_csv(MJ_CSV_URL))
DownloadMJ ==
  /\ CanRequestMJ
  /\ \E status \in StatusCodes, layout \in Layouts :
       \E lines \in Tables(layout) :
         LET resp == Response(status, MJ_COLUMNS, layout, lines)
             r    == download_csv(resp, MJ_CSV_URL)
         IN  /\ requests' = Append(requests, [url |-> MJ_CSV_URL, resp |-> resp])
             /\ IF r.ok
                  THEN /\ mj_src' = r.value
                       /\ mj_df' = read_csv(r.value)
                       /\ pc' = "mj_loaded"
                       /\ err' = err
                  ELSE /\ pc' = "error"
                       /\ err' = r.exc
                       /\ UNCHANGED <<mj_src, mj_df>>
  /\ UNCHANGED <<gva_src, gva_df, mj_agg, gva_agg, combined, html_table,
                 national_trend, trend_chart_html, files, writes>>

\* Line 52: gva_df = pd.read_csv(download_csv(GVA_CSV_URL))
DownloadGVA ==
  /\ CanRequestGVA
  /\ \E status \in StatusCodes, layout \in Layouts :
       \E lines \in Tables(layout) :
         LET resp == Response(status, GVA_COLUMNS, layout, lines)
             r    == download_csv(resp, GVA_CSV_URL)
         IN  /\ requests' = Append(requests, [url |-> GVA_CSV_URL, resp |-> resp])
             /\ IF r.ok
                  THEN /\ gva_src' = r.value
                       /\ gva_df' = read_csv(r.value)
                       /\ pc' = "loaded"
                       /\ err' = err
                  ELSE /\ pc' = "error"
                       /\ err' = r.exc
                       /\ UNCHANGED <<gva_src, gva_df>>
  /\ UNCHANGED <<mj_src, mj_df, mj_agg, gva_agg, combined, html_table,
                 national_trend, trend_chart_html, files, writes>>

\* Lines 60-70: normalise the MJ frame, then the GVA frame.
NormalizeColumns ==
  /\ pc = "loaded"
  /\ LET m == Normalize(mj_df, "Date", "MJ_Count")
     IN  IF ~m.ok
           THEN /\ pc' = "error"
                /\ err' = m.exc
                /\ UNCHANGED <<mj_df, gva_df>>
           ELSE LET g == Normalize(gva_df, "Incident Date", "GVA_Count")
                IN  /\ mj_df' = m.df
                    /\ IF ~g.ok
                         THEN /\ pc' = "error"
                              /\ err' = g.exc
                              /\ UNCHANGED gva_df
                         ELSE /\ pc' = "normalized"
                              /\ gva_df' = g.df
                              /\ err' = err
  /\ UNCHANGED <<requests, mj_src, gva_src, mj_agg, gva_agg, combined,
                 html_table, national_trend, trend_chart_html, files, writes>>

\* Lines 76-97: group both frames, merge them, add the marker column.
AggregateAndMerge ==
  /\ pc = "normalized"
  /\ LET m == groupby_agg(mj_df, "MJ_Count")
     IN  IF ~m.ok
           THEN /\ pc' = "error"
                /\ err' = m.exc
                /\ UNCHANGED <<mj_agg, gva_agg, combined>>
           ELSE LET g == groupby_agg(gva_df, "GVA_Count")
                IN  /\ mj_agg' = m.df
                    /\ IF ~g.ok
                         THEN /\ pc' = "error"
                              /\ err' = g.exc
                              /\ UNCHANGED <<gva_agg, combined>>
                         ELSE /\ pc' = "combined"
                              /\ gva_agg' = g.df
                              /\ combined' = apply_marker(merge(m.df, g.df))
                              /\ err' = err
  /\ UNCHANGED <<requests, mj_src, gva_src, mj_df, gva_df, html_table,
                 national_trend, trend_chart_html, files, writes>>

\* Lines 103-109: html_table = combined.to_html(...)
RenderTable ==
  /\ pc = "combined"
  /\ html_table' = to_html(combined, TABLE_COLUMNS)
  /\ pc' = "table"
  /\ UNCHANGED <<requests, mj_src, gva_src, mj_df, gva_df, mj_agg, gva_agg,
                 combined, national_trend, trend_chart_html, files, writes, err>>

\* Lines 115-127: the national totals and their line chart.
RenderChart ==
  /\ pc = "table"
  /\ national_trend' = national_trend_of(combined)
  /\ trend_chart_html' = line_chart(national_trend')
  /\ pc' = "chart"
  /\ UNCHANGED <<requests, mj_src, gva_src, mj_df, gva_df, mj_agg, gva_agg,
                 combined, html_table, files, writes, err>>

\* The write moved before the chart.
CanWriteReport_early == pc \in {"table", "chart"}

\* The report is written once the chart is rendered.
CanWriteReport == pc = "chart"

\* Lines 133-169: interpolate table and chart into the page and write it
\* (mode 'w' replaces a file of the same name).
WriteReport ==
  /\ CanWriteReport
  /\ files' = { f \in files : f.name # REPORT_FILE }
                \cup { [name |-> REPORT_FILE,
                        content |-> [table |-> html_table,
                                     chart |-> trend_chart_html]] }
  /\ writes' = writes + 1
  /\ pc' = "done"
  /\ UNCHANGED <<requests, mj_src, gva_src, mj_df, gva_df, mj_agg, gva_agg,
                 combined, html_table, national_trend, trend_chart_html, err>>

Next ==
  \/ DownloadMJ
  \/ DownloadGVA
  \/ NormalizeColumns
  \/ AggregateAndMerge
  \/ RenderTable
  \/ RenderChart
  \/ WriteReport

Spec == Init /\ [][Next]_vars

\* ================================================================= claims
\* The stages at which the merged table exists.
Merged == pc \in {"combined", "table", "chart", "done"}

\* Both downloads answered 200.
BothDownloaded ==
  /\ Len(requests) = 2
  /\ requests[1].resp.status_code = 200
  /\ requests[2].resp.status_code = 200

\* The downloaded text, column by column.
HasColumn(text, col) == \E i \in 1..Len(text.header) : text.header[i] = col

RawCell(text, col, j) == text.lines[j][ColIdx(text.header, col)]

\* A date text no calendar has (month or day out of range).
Malformed(cell) ==
  \/ cell[2] < 1 \/ cell[2] > 12
  \/ cell[3] < 1 \/ cell[3] > 31

\* The input rows of one dataset that belong to a (Year, State) pair.
InputRowsOf(text, dateCol, year, state) ==
  { j \in 1..Len(text.lines) :
      /\ RawCell(text, dateCol, j)[1] = year
      /\ RawCell(text, "State", j) = state }

\* The input rows of one dataset whose date falls in a year.
InputRowsIn(text, dateCol, year) ==
  { j \in 1..Len(text.lines) : RawCell(text, dateCol, j)[1] = year }

\* The school sum one aggregate holds for a pair; 0 when it has no row.
SideSum(agg, year, state) ==
  IF \E i \in 1..Len(agg) : agg[i]["Year"] = year /\ agg[i]["State"] = state
    THEN LET i == CHOOSE i \in 1..Len(agg) :
                    agg[i]["Year"] = year /\ agg[i]["State"] = state
         IN  agg[i]["School_Incidents"]
    ELSE 0

\* The total the national trend shows for a year; 0 when it has no row.
TrendTotal(col, year) ==
  IF \E i \in 1..Len(national_trend) : national_trend[i].Year = year
    THEN LET i == CHOOSE i \in 1..Len(national_trend) :
                    national_trend[i].Year = year
         IN  national_trend[i][col]
    ELSE 0

\* The U.S. state a spelling names.
StateOf(s) == IF s \in {"CA", "California"} THEN "California" ELSE s

\* An input the pipeline cannot process: no date column, no State column,
\* or a malformed date.
Unprocessable(text, dateCol) ==
  \/ ~HasColumn(text, dateCol)
  \/ ~HasColumn(text, "State")
  \/ \E j \in 1..Len(text.lines) : Malformed(RawCell(text, dateCol, j))

FailsAtNormalize(text, dateCol) ==
  \/ ~HasColumn(text, dateCol)
  \/ \E j \in 1..Len(text.lines) : Malformed(RawCell(text, dateCol, j))

\* C1: in every row of the combined table, MJ_Count is the number of MJ
\* input rows with that year and State, and GVA_Count the number of GVA
\* input rows with that year and State.
C1_AggregationArithmetic ==
  Merged =>
    \A i \in 1..Len(combined) :
      /\ combined[i].MJ_Count =
           Cardinality(InputRowsOf(mj_src, "Date", combined[i].Year, combined[i].State))
      /\ combined[i].GVA_Count =
           Cardinality(InputRowsOf(gva_src, "Incident Date", combined[i].Year, combined[i].State))

\* C1 witness: a pair counted twice by one dataset and once by the other,
\* next to a row of another year.
C1_Witness ==
  /\ pc = "done"
  /\ \E i, j \in 1..Len(combined) :
       /\ combined[i].MJ_Count = 2
       /\ combined[i].GVA_Count = 1
       /\ combined[j].Year # combined[i].Year
       /\ combined[j].State = combined[i].State

\* C2: the marker of a row is the star exactly when one of the two school
\* sums of its pair is positive, and the empty string otherwise; a dataset
\* without a row for the pair counts as 0.
C2_SchoolMarker ==
  Merged =>
    \A i \in 1..Len(combined) :
      LET positive ==
            \/ SideSum(mj_agg, combined[i].Year, combined[i].State) > 0
            \/ SideSum(gva_agg, combined[i].Year, combined[i].State) > 0
      IN  /\ positive => combined[i].School = STAR
          /\ ~positive => combined[i].School = ""

\* C2 witness: a starred row whose pair only the GVA data has, beside an
\* unmarked row.
C2_Witness ==
  /\ pc = "done"
  /\ \E i, j \in 1..Len(combined) :
       /\ combined[i].School = STAR
       /\ <<combined[i].Year, combined[i].State>> \notin KeysOf(mj_agg)
       /\ combined[j].School = ""

\* C3: a download answered 200 hands back the response body; one answered
\* anything else raises a ValueError naming the URL, the run is in its
\* error state and the report is not written.
C3_DownloadFailure ==
  \A k \in 1..Len(requests) :
    LET q == requests[k]
    IN  /\ q.resp.status_code = 200 =>
             (IF q.url = MJ_CSV_URL THEN mj_src ELSE gva_src) = q.resp.text
        /\ q.resp.status_code # 200 =>
             /\ pc = "error"
             /\ err.type = "ValueError"
             /\ q.url \in Range(err.msg)
             /\ files = {}
             /\ writes = 0

\* C3 witness: the second download answered 404 after the first succeeded.
C3_Witness ==
  /\ Len(requests) = 2
  /\ requests[1].resp.status_code = 200
  /\ requests[2].resp.status_code = 404
  /\ pc = "error"

\* C4: the pairs of the combined table are the union of the pairs of the
\* two aggregates, no pair has two rows, and a pair one dataset lacks has
\* count 0 for that dataset.
C4_OuterJoin ==
  Merged =>
    /\ KeysOf(combined) = KeysOf(mj_agg) \cup KeysOf(gva_agg)
    /\ \A i, j \in 1..Len(combined) :
         (combined[i].Year = combined[j].Year /\ combined[i].State = combined[j].State)
           => i = j
    /\ \A i \in 1..Len(combined) :
         LET k == <<combined[i].Year, combined[i].State>>
         IN  /\ k \notin KeysOf(mj_agg) => combined[i].MJ_Count = 0
             /\ k \notin KeysOf(gva_agg) => combined[i].GVA_Count = 0
             /\ combined[i].MJ_Count >= 0
             /\ combined[i].GVA_Count >= 0

\* C4 witness: one pair only MJ has, one only GVA has, one both have.
C4_Witness ==
  /\ pc = "done"
  /\ \E k \in KeysOf(combined) : k \in KeysOf(mj_agg) /\ k \notin KeysOf(gva_agg)
  /\ \E k \in KeysOf(combined) : k \notin KeysOf(mj_agg) /\ k \in KeysOf(gva_agg)
  /\ \E k \in KeysOf(combined) : k \in KeysOf(mj_agg) /\ k \in KeysOf(gva_agg)

\* C5: incidents of one U.S. state in one year are in a single row of the
\* combined table, whatever spelling each source uses for the state.
C5_StateNamesNormalized ==
  Merged =>
    \A i, j \in 1..Len(combined) :
      (/\ combined[i].Year = combined[j].Year
       /\ StateOf(combined[i].State) = StateOf(combined[j].State))
        => i = j

\* C6: the report file is written at most once, only after both downloads
\* succeeded and the table and the chart were generated; it holds both, and
\* the run writes no other file.
C6_ReportWrittenLast ==
  /\ writes <= 1
  /\ \A f \in files : f.name = REPORT_FILE
  /\ Cardinality(files) = writes
  /\ files # {} =>
       /\ pc = "done"
       /\ BothDownloaded
       /\ html_table = to_html(combined, TABLE_COLUMNS)
       /\ html_table.columns = TABLE_COLUMNS
       /\ Len(trend_chart_html.traces) = 2
       /\ \A f \in files :
            /\ f.content.table = html_table
            /\ f.content.chart = trend_chart_html
  /\ pc = "done" => files # {}

\* C6 witness: the report written with a table of two rows and a chart of
\* two years.
C6_Witness ==
  /\ pc = "done"
  /\ \E f \in files :
       /\ Len(f.content.table.body) = 2
       /\ Len(f.content.chart.traces[1].x) = 2

C8_EveryRowCounted ==
  pc \in {"chart", "done"} =>
    \A y \in {2019, 2020} :
      /\ TrendTotal("MJ_Total", y) = Cardinality(InputRowsIn(mj_src, "Date", y))
      /\ TrendTotal("GVA_Total", y) = Cardinality(InputRowsIn(gva_src, "Incident Date", y))

\* C9: each URL is requested at most once, MJ first, and GVA only after MJ
\* answered 200.
C9_NoRetryFixedOrder ==
  /\ Len(requests) <= 2
  /\ Len(requests) >= 1 => requests[1].url = MJ_CSV_URL
  /\ Len(requests) = 2 =>
       /\ requests[2].url = GVA_CSV_URL
       /\ requests[1].resp.status_code = 200
  /\ (Len(requests) >= 1 /\ requests[1].resp.status_code # 200) =>
       /\ pc = "error"
       /\ Len(requests) = 1

\* C9 witness: the MJ download failed and nothing else was requested.
C9_Witness ==
  /\ pc = "error"
  /\ Len(requests) = 1
  /\ requests[1].resp.status_code = 500

====
